---- MODULE Spec2Model ----
(***************************************************************************)
(* AssistantComponent (src/components/assistant/assistant-component.tsx):  *)
(* a React function component holding chat and map state, hydrating from   *)
(* a REST API, polling the current run with 2-second timers, executing the *)
(* map tool calls of a run in requires_action and posting their outputs.   *)
(*                                                                         *)
(* The backend (thread, runs, messages) is outside the component: every    *)
(* response is a nondeterministic choice from a bounded set of payloads,   *)
(* and every request may fail instead.                                     *)
(*                                                                         *)
(* React semantics the model follows (React 18, createRoot):               *)
(*  - a state setter takes effect at the next render; setters called in    *)
(*    one synchronous block are batched into one render, the last value    *)
(*    given to a setter wins;                                              *)
(*  - a function created inside the component closes over the state of    *)
(*    the render that created it; useCallback(f, deps) keeps the function  *)
(*    of the last render in which deps changed;                            *)
(*  - an effect runs after each render in which its deps changed, and only *)
(*    a function RETURNED by the effect callback is a cleanup;             *)
(*  - setters called after unmount change nothing.                         *)
(* Timers all have the same delay (2000 ms), so they fire in the order     *)
(* they were set.                                                          *)
(***************************************************************************)
EXTENDS Integers, Sequences, FiniteSets, TLC

VARIABLES
    mounted,            \* the component is mounted
    loading,            \* useState<boolean>(true)
    mapCenter,          \* useState<Center>
    pointsOfInterest,   \* useState<Marker[]>
    mapZoomLevel,       \* useState<number>
    userPrompt,         \* useState<string>
    currentRun,         \* useState<Run | null>
    messages,           \* useState<Message[]>
    assistantWriting,   \* useState<boolean>
    timers,             \* pending setTimeout callbacks, oldest first
    requests,           \* HTTP requests in flight, in the order they were issued
    stopped,            \* history: a response has set a non-active run and no prompt
                        \*          response has set an active run since
    failedPost,         \* history: payload of the last tool-output POST that failed
    ev                  \* history: the step that produced this state

vars == <<mounted, loading, mapCenter, pointsOfInterest, mapZoomLevel, userPrompt,
          currentRun, messages, assistantWriting, timers, requests, stopped,
          failedPost, ev>>

----------------------------------------------------------------------------
(* Bounds *)

MaxPending == 2
MaxMessages == 2
MaxCalls == 2

----------------------------------------------------------------------------
(* Values *)

\* Coordinates are in units of 1e-4 degree.
InitialCenter == [lat |-> 377749, lng |-> -1224194]
InitialZoom == 12

NoAction == [present |-> FALSE, tool_calls |-> <<>>]
\* currentRun = null
NoRun == [id |-> "", status |-> "", required_action |-> NoAction]


\* The parsed form of a tool call's arguments; ok = FALSE is a string that is not JSON.
Args(z, lat, lng, mk, clat, clng) ==
    [ok |-> TRUE, zoomLevel |-> z, latitude |-> lat, longitude |-> lng,
     markers |-> mk, centerLatitude |-> clat, centerLongitude |-> clng]
BadJSON == [ok |-> FALSE, zoomLevel |-> 0, latitude |-> 0, longitude |-> 0,
            markers |-> <<>>, centerLatitude |-> 0, centerLongitude |-> 0]

ToolCall(id, type, name, arguments) ==
    [id |-> id, type |-> type, name |-> name, arguments |-> arguments]

ArgsA == Args(5, 10, 20, <<"mkA">>, 30, 40)
ArgsB == Args(8, 11, 21, <<"mkB", "mkA">>, 31, 41)

FunctionNames == {"changeMapZoomLevel", "changeMapCenter", "addLocationsToMap"}

\* The tool calls a backend may ask for: the three map functions, a function the
\* component does not know, a tool of another type, and unparsable arguments.
ToolCalls ==
    {ToolCall(id, "function", n, a) :
        id \in {"c1", "c2"}, n \in FunctionNames \cup {"other"}, a \in {ArgsA, ArgsB}}
    \cup {ToolCall(id, "code_interpreter", "changeMapZoomLevel", ArgsA) : id \in {"c1", "c2"}}
    \cup {ToolCall(id, "function", "changeMapCenter", BadJSON) : id \in {"c1", "c2"}}

\* Message: id, created_at and what kind of entry it is.
Msg(id, t, role) == [id |-> id, created_at |-> t, role |-> role]
M1 == Msg(1, 10, "user")
M2 == Msg(2, 20, "assistant")
M3 == Msg(3, 20, "user")

\* generateAnnotation(title, tag) of @objects: a locally made chat entry.
generateAnnotation(title, tag) == Msg(0, 0, tag)

----------------------------------------------------------------------------
(* Pure functions *)

isRunActive(run) ==
    /\ run # NoRun
    /\ run.status \in {"queued", "in_progress", "cancelling", "requires_action"}

\* Array.prototype.sort with (a, b) => a.created_at - b.created_at: stable.
RECURSIVE InsertByCreatedAt(_, _)
InsertByCreatedAt(sorted, m) ==
    IF sorted = <<>> THEN <<m>>
    ELSE IF Head(sorted).created_at <= m.created_at
         THEN <<Head(sorted)>> \o InsertByCreatedAt(Tail(sorted), m)
         ELSE <<m>> \o sorted

RECURSIVE SortByCreatedAt(_)
SortByCreatedAt(s) ==
    IF s = <<>> THEN <<>>
    ELSE InsertByCreatedAt(SortByCreatedAt(SubSeq(s, 1, Len(s) - 1)), s[Len(s)])

\* newMessages.filter((msg) => !held.find((m) => m.id === msg.id))
MissingMessages(held, newMessages) ==
    SelectSeq(newMessages, LAMBDA msg : \A k \in 1..Len(held) : held[k].id # msg.id)

\* The value fetchMessages gives to setMessages, for the list `held` it closes over.
MergedMessages(held, newMessages) ==
    SortByCreatedAt(held \o MissingMessages(held, newMessages))

\* The state the map functions write: what the setters called so far leave for the
\* next render, the outputs pushed so far, and whether JSON.parse threw.
ExecState(msgs, center, zoom, poi) ==
    [messages |-> msgs, mapCenter |-> center, mapZoomLevel |-> zoom,
     pointsOfInterest |-> poi, outputs |-> <<>>, threw |-> FALSE]

\* A variant of PushOutput that puts the new output in front of the others.
PushOutputInFront(st, id, response) ==
    [st EXCEPT !.outputs = <<[tool_call_id |-> id, output |-> response]>> \o @]

\* outputs.push({tool_call_id: action.id, output: response})
PushOutput(st, id, response) ==
    [st EXCEPT !.outputs = Append(@, [tool_call_id |-> id, output |-> response])]

\* `held` is the messages list of the render whose closure is running.
changeMapZoomLevel(st, held, zoomLevel) ==
    [st EXCEPT !.messages = Append(held, generateAnnotation("Updated Map", "zoom")),
               !.mapZoomLevel = zoomLevel]

changeMapCenter(st, held, latitude, longitude, zoomLevel) ==
    [st EXCEPT !.messages = Append(held, generateAnnotation("Updated Map", "center")),
               !.mapCenter = [lat |-> latitude, lng |-> longitude],
               !.mapZoomLevel = zoomLevel]

\* A variant of addLocationsToMap that adds the markers to those already shown.
addLocationsToMapMerging(st, held, locations, latitude, longitude, zoomLevel) ==
    [st EXCEPT !.messages = Append(held, generateAnnotation("Annotated Map", "mark")),
               !.mapCenter = [lat |-> latitude, lng |-> longitude],
               !.mapZoomLevel = zoomLevel,
               !.pointsOfInterest = @ \o locations]

addLocationsToMap(st, held, locations, latitude, longitude, zoomLevel) ==
    [st EXCEPT !.messages = Append(held, generateAnnotation("Annotated Map", "mark")),
               !.mapCenter = [lat |-> latitude, lng |-> longitude],
               !.mapZoomLevel = zoomLevel,
               !.pointsOfInterest = locations]

\* One iteration of the loop of executeAssistantActions.
ExecuteAction(st, held, action) ==
    IF action.type # "function" THEN st
    ELSE IF ~action.arguments.ok THEN [st EXCEPT !.threw = TRUE]
    ELSE LET args == action.arguments IN
         IF action.name = "changeMapZoomLevel"
         THEN PushOutput(changeMapZoomLevel(st, held, args.zoomLevel),
                         action.id, "Map mapZoomLevel level set successfully.")
         ELSE IF action.name = "changeMapCenter"
         THEN PushOutput(changeMapCenter(st, held, args.latitude, args.longitude,
                                         args.zoomLevel),
                         action.id, "Map centered set successfully.")
         ELSE IF action.name = "addLocationsToMap"
         THEN PushOutput(addLocationsToMap(st, held, args.markers, args.centerLatitude,
                                           args.centerLongitude, args.zoomLevel),
                         action.id, "Map locations marked successfully.")
         ELSE st

RECURSIVE ExecuteFrom(_, _, _, _)
ExecuteFrom(st, held, actions, i) ==
    IF i > Len(actions) \/ st.threw THEN st
    ELSE ExecuteFrom(ExecuteAction(st, held, actions[i]), held, actions, i + 1)

\* executeAssistantActions(run), run by a closure holding the messages list `held`,
\* starting from the pending state st.
executeAssistantActions(st, held, run) ==
    IF ~run.required_action.present THEN st
    ELSE ExecuteFrom(st, held, run.required_action.tool_calls, 1)

----------------------------------------------------------------------------
(* Backend payloads *)

Run(id, status) == [id |-> id, status |-> status, required_action |-> NoAction]
ActionRun(id, calls) ==
    [id |-> id, status |-> "requires_action",
     required_action |-> [present |-> TRUE, tool_calls |-> calls]]

\* The tool-call lists the backend of the component asks for.
PollCallLists ==
    { <<ToolCall("c1", "function", "changeMapCenter", ArgsB),
        ToolCall("c2", "function", "addLocationsToMap", ArgsA)>>,
      <<ToolCall("c1", "function", "other", ArgsA),
        ToolCall("c2", "function", "addLocationsToMap", ArgsB)>>,
      <<ToolCall("c1", "function", "changeMapZoomLevel", BadJSON)>> }

ActionRuns(id) == {ActionRun(id, calls) : calls \in PollCallLists}

\* response.data.run of GET /runs: the latest run of the thread, if any.
OpenRuns == {NoRun, Run("r1", "in_progress"), Run("r1", "completed")} \cup ActionRuns("r1")
\* response.data.run of GET /runs/{id}
PolledRuns(id) == {Run(id, "in_progress"), Run(id, "completed")} \cup ActionRuns(id)
\* response.data.run of POST /messages: the run created for the prompt.
CreatedRuns == {Run("r2", "queued"), Run("r2", "completed")}
\* response.data.run of POST /runs/{id}
SubmittedRuns(id) == {Run(id, "cancelling"), Run(id, "completed")}

\* response.data of GET /messages: newMessages may be absent.
MessagesData ==
    {[defined |-> FALSE, newMessages |-> <<>>]}
    \cup {[defined |-> TRUE, newMessages |-> l] : l \in {<<>>, <<M2, M1>>}}

Prompts == {"", "hi"}

----------------------------------------------------------------------------
(* Closures, timers and requests *)

\* messages in the first render: fetchMessages, fetchOpenRun and hydrateMessages are
\* useCallback(..., []) and keep the functions and state of that render.
FirstRenderMessages == <<>>

Request(kind, hydrate, runId, held, content, outputs) ==
    [kind |-> kind, hydrate |-> hydrate, runId |-> runId, held |-> held,
     content |-> content, outputs |-> outputs, late |-> FALSE, reported |-> {}]

\* axios.get(`/api/threads/${threadId}/messages`)
GetMessages(hydrate) == Request("getMessages", hydrate, "", FirstRenderMessages, "", <<>>)
\* axios.get(`/api/threads/${threadId}/runs`)
GetRuns == Request("getRuns", TRUE, "", FirstRenderMessages, "", <<>>)
\* axios.get(`/api/threads/${threadId}/runs/${currentRun.id}`)
\* reported is history: the tool call ids that tool-output POSTs for the run had
\* carried, as far as the handler that set the timer of this poll had seen them.
GetRun(runId, held, reported) ==
    [Request("getRun", FALSE, runId, held, "", <<>>) EXCEPT !.reported = reported]
\* axios.post(`/api/threads/${threadId}/messages`, {messageContent})
PostMessage(content, held) == Request("postMessage", FALSE, "", held, content, <<>>)
\* axios.post(`/api/threads/${threadId}/runs/${runId}`, {toolOutputs})
submitFunctionOutputs(outputs, runId) ==
    Request("postOutputs", FALSE, runId, <<>>, "", outputs)

\* history: the tool call ids a list of tool outputs carries.
Ids(outputs) == {outputs[o].tool_call_id : o \in 1..Len(outputs)}

Remove(s, i) == SubSeq(s, 1, i - 1) \o SubSeq(s, i + 1, Len(s))

\* history: the requests issued before request i are marked once the response to
\* request i has set currentRun.
Overtaken(reqs, i) ==
    [k \in 1..Len(reqs) |-> IF k < i THEN [reqs[k] EXCEPT !.late = TRUE] ELSE reqs[k]]

\* history: the timers pending when currentRun is replaced or the component unmounts.
Outdated(ts) == [k \in 1..Len(ts) |-> [ts[k] EXCEPT !.stale = TRUE]]

\* pollRunStatus as created by the render with currentRun = run and messages = held:
\* the timers it sets.  The callback runs pollCurrentRunStatus of the same render.
pollRunStatus(run, held, reported) ==
    IF run # NoRun /\ isRunActive(run)
    THEN <<[runId |-> run.id, held |-> held, stale |-> FALSE, reported |-> reported]>>
    ELSE <<>>

\* useEffect(() => { pollRunStatus(); }, [pollRunStatus]) after a render that
\* replaced currentRun by run: the callback returns nothing, so React holds no
\* cleanup and the timers already pending stay.
PollEffect(ts, run, held, reported) == Outdated(ts) \o pollRunStatus(run, held, reported)

\* history: kind of step; flag: the timer was outdated, the request was overtaken, or
\* newMessages was present; acts: executeAssistantActions ran; posted: its outputs
\* were posted; runId: id of the run in the response; list: newMessages; reported:
\* the field of that name of the poll that was answered.
Event(kind, flag, acts, posted, runId, list) ==
    [kind |-> kind, flag |-> flag, acts |-> acts, posted |-> posted, runId |-> runId,
     list |-> list, reported |-> {}]

WithinBounds ==
    /\ Len(timers') + Len(requests') <= MaxPending
    /\ Len(messages') <= MaxMessages

\* A variant of Accepted with a generation check: a response overtaken by a
\* later request's response is dropped.
AcceptedUnlessOvertaken(req, run) == IF req.late THEN currentRun ELSE run

\* setCurrentRun(run) in a response handler: the run of the response, whatever
\* request it answers.
Accepted(req, run) == run

Pending == ExecState(messages, mapCenter, mapZoomLevel, pointsOfInterest)

\* The render that follows a handler: the values the setters were given.
Render(st) ==
    /\ messages' = st.messages
    /\ mapCenter' = st.mapCenter
    /\ mapZoomLevel' = st.mapZoomLevel
    /\ pointsOfInterest' = st.pointsOfInterest

Frozen ==
    UNCHANGED <<loading, mapCenter, pointsOfInterest, mapZoomLevel, userPrompt,
                currentRun, messages, assistantWriting, timers, stopped>>

----------------------------------------------------------------------------
(* The component *)

\* State of the first render, after its effects: pollRunStatus found no run, and
\* hydrateMessages has called fetchMessages.
Init ==
    /\ mounted = TRUE
    /\ loading = TRUE
    /\ mapCenter = InitialCenter
    /\ pointsOfInterest = <<>>
    /\ mapZoomLevel = InitialZoom
    /\ userPrompt = ""
    /\ currentRun = NoRun
    /\ messages = <<>>
    /\ assistantWriting = FALSE
    /\ timers = <<>>
    /\ requests = <<GetMessages(TRUE)>>
    /\ stopped = FALSE
    /\ failedPost = <<>>
    /\ ev = Event("mount", FALSE, FALSE, FALSE, "", <<>>)

\* The request hydrateMessages issues once fetchMessages has settled.
AfterFetchMessages(req) == IF req.hydrate THEN <<GetRuns>> ELSE <<>>

\* fetchMessages: the response handler.
FetchMessagesResponse(i, data) ==
    /\ requests[i].kind = "getMessages"
    /\ requests' = Remove(requests, i) \o AfterFetchMessages(requests[i])
    /\ IF mounted
       THEN /\ messages' = IF data.defined
                           THEN MergedMessages(requests[i].held, data.newMessages)
                           ELSE messages
            /\ assistantWriting' = FALSE
            /\ UNCHANGED <<loading, mapCenter, pointsOfInterest, mapZoomLevel,
                           userPrompt, currentRun, timers, stopped>>
       ELSE Frozen
    /\ ev' = Event("fetchMessages", data.defined, FALSE, FALSE, "", data.newMessages)
    /\ UNCHANGED <<mounted, failedPost>>
    /\ WithinBounds

\* fetchMessages: the catch handler.
FetchMessagesFailure(i) ==
    /\ requests[i].kind = "getMessages"
    /\ requests' = Remove(requests, i) \o AfterFetchMessages(requests[i])
    /\ ev' = Event("fetchMessagesFailed", FALSE, FALSE, FALSE, "", <<>>)
    /\ Frozen
    /\ UNCHANGED <<mounted, failedPost>>
    /\ WithinBounds

\* fetchOpenRun: the response handler, then setLoading(false) of hydrateMessages.
FetchOpenRunResponse(i, latestRun) ==
    /\ requests[i].kind = "getRuns"
    /\ LET taken == latestRun # NoRun /\ isRunActive(latestRun)
           acts == taken /\ latestRun.status = "requires_action"
           st == IF acts
                 THEN executeAssistantActions(Pending, requests[i].held, latestRun)
                 ELSE Pending
           post == IF acts /\ ~st.threw
                   THEN <<submitFunctionOutputs(st.outputs, latestRun.id)>>
                   ELSE <<>>
       IN  /\ requests' = Remove(IF mounted /\ taken THEN Overtaken(requests, i)
                                 ELSE requests, i) \o post
           /\ IF mounted
              THEN /\ Render(st)
                   /\ currentRun' = IF taken THEN latestRun ELSE currentRun
                   /\ timers' = IF taken
                                THEN PollEffect(timers, latestRun, st.messages,
                                                IF post # <<>> THEN Ids(st.outputs) ELSE {})
                                ELSE timers
                   /\ loading' = FALSE
                   /\ UNCHANGED <<userPrompt, assistantWriting, stopped>>
              ELSE Frozen
           /\ ev' = Event("fetchOpenRun", FALSE, acts, post # <<>>, latestRun.id, <<>>)
    /\ UNCHANGED <<mounted, failedPost>>
    /\ WithinBounds

\* A variant of FetchOpenRunFailure for a fetchOpenRun without its catch: the
\* rejection skips the setLoading(false) of hydrateMessages.
FetchOpenRunFailureRejecting(i) ==
    /\ requests[i].kind = "getRuns"
    /\ requests' = Remove(requests, i)
    /\ ev' = Event("fetchOpenRunFailed", FALSE, FALSE, FALSE, "", <<>>)
    /\ Frozen
    /\ UNCHANGED <<mounted, failedPost>>

\* fetchOpenRun: the catch handler, then setLoading(false) of hydrateMessages.
FetchOpenRunFailure(i) ==
    /\ requests[i].kind = "getRuns"
    /\ requests' = Remove(requests, i)
    /\ IF mounted
       THEN /\ loading' = FALSE
            /\ UNCHANGED <<mapCenter, pointsOfInterest, mapZoomLevel, userPrompt,
                           currentRun, messages, assistantWriting, timers, stopped>>
       ELSE Frozen
    /\ ev' = Event("fetchOpenRunFailed", FALSE, FALSE, FALSE, "", <<>>)
    /\ UNCHANGED <<mounted, failedPost>>

\* The oldest timer fires: pollCurrentRunStatus of the render that set it.
TimerFires ==
    /\ timers # <<>>
    /\ timers' = Tail(timers)
    /\ requests' = Append(requests, GetRun(Head(timers).runId, Head(timers).held,
                                            Head(timers).reported))
    /\ ev' = Event("timer", Head(timers).stale, FALSE, FALSE, "", <<>>)
    /\ UNCHANGED <<mounted, loading, mapCenter, pointsOfInterest, mapZoomLevel,
                   userPrompt, currentRun, messages, assistantWriting, stopped,
                   failedPost>>
    /\ WithinBounds

\* pollCurrentRunStatus: the response handler.
PollResponse(i, run) ==
    /\ requests[i].kind = "getRun"
    /\ LET acts == isRunActive(run) /\ run.status = "requires_action"
           st == IF acts THEN executeAssistantActions(Pending, requests[i].held, run)
                 ELSE Pending
           next == IF ~isRunActive(run) THEN <<GetMessages(FALSE)>>
                   ELSE IF acts /\ ~st.threw
                        THEN <<submitFunctionOutputs(st.outputs, run.id)>>
                        ELSE <<>>
       IN  /\ requests' = Remove(IF mounted THEN Overtaken(requests, i) ELSE requests, i)
                          \o next
           /\ IF mounted
              THEN /\ Render(st)
                   /\ currentRun' = Accepted(requests[i], run)
                   /\ timers' = PollEffect(timers, run, st.messages,
                                           requests[i].reported
                                           \cup IF acts /\ ~st.threw THEN Ids(st.outputs)
                                                ELSE {})
                   /\ stopped' = (stopped \/ ~isRunActive(run))
                   /\ UNCHANGED <<loading, userPrompt, assistantWriting>>
              ELSE Frozen
           /\ ev' = [Event("poll", requests[i].late, acts, acts /\ ~st.threw, run.id,
                            <<>>) EXCEPT !.reported = requests[i].reported]
    /\ UNCHANGED <<mounted, failedPost>>
    /\ WithinBounds

\* pollCurrentRunStatus: the catch handler.
PollFailure(i) ==
    /\ requests[i].kind = "getRun"
    /\ requests' = Remove(requests, i)
    /\ ev' = Event("pollFailed", FALSE, FALSE, FALSE, "", <<>>)
    /\ Frozen
    /\ UNCHANGED <<mounted, failedPost>>

\* onChange of the input, which is rendered once loading is over and is disabled
\* while assistantWriting.
Typing(text) ==
    /\ mounted /\ ~loading /\ ~assistantWriting
    /\ text # userPrompt
    /\ userPrompt' = text
    /\ ev' = Event("typing", FALSE, FALSE, FALSE, "", <<>>)
    /\ UNCHANGED <<mounted, loading, mapCenter, pointsOfInterest, mapZoomLevel,
                   currentRun, messages, assistantWriting, timers, requests, stopped,
                   failedPost>>

\* Enter in the input: handlePromptSubmission of the current render.
handlePromptSubmission ==
    /\ mounted /\ ~loading /\ ~assistantWriting
    /\ userPrompt' = ""
    /\ requests' = Append(requests, PostMessage(userPrompt, messages))
    /\ ev' = Event("enter", FALSE, FALSE, FALSE, "", <<>>)
    /\ UNCHANGED <<mounted, loading, mapCenter, pointsOfInterest, mapZoomLevel,
                   currentRun, messages, assistantWriting, timers, stopped, failedPost>>
    /\ WithinBounds

\* handlePromptSubmission: the response handler.
PromptResponse(i, message, run) ==
    /\ requests[i].kind = "postMessage"
    /\ requests' = Remove(IF mounted THEN Overtaken(requests, i) ELSE requests, i)
    /\ IF mounted
       THEN /\ messages' = Append(requests[i].held, message)
            /\ currentRun' = Accepted(requests[i], run)
            /\ assistantWriting' = TRUE
            /\ timers' = PollEffect(timers, run, messages', {})
            /\ stopped' = ~isRunActive(run)
            /\ UNCHANGED <<loading, mapCenter, pointsOfInterest, mapZoomLevel, userPrompt>>
       ELSE Frozen
    /\ ev' = Event("prompt", requests[i].late, FALSE, FALSE, run.id, <<>>)
    /\ UNCHANGED <<mounted, failedPost>>
    /\ WithinBounds

\* handlePromptSubmission: the catch handler.
PromptFailure(i) ==
    /\ requests[i].kind = "postMessage"
    /\ requests' = Remove(requests, i)
    /\ ev' = Event("promptFailed", FALSE, FALSE, FALSE, "", <<>>)
    /\ Frozen
    /\ UNCHANGED <<mounted, failedPost>>

\* submitFunctionOutputs: the response handler.
SubmitResponse(i, run) ==
    /\ requests[i].kind = "postOutputs"
    /\ requests' = Remove(IF mounted THEN Overtaken(requests, i) ELSE requests, i)
    /\ IF mounted
       THEN /\ currentRun' = Accepted(requests[i], run)
            /\ timers' = PollEffect(timers, run, messages, Ids(requests[i].outputs))
            /\ stopped' = (stopped \/ ~isRunActive(run))
            /\ UNCHANGED <<loading, mapCenter, pointsOfInterest, mapZoomLevel,
                           userPrompt, messages, assistantWriting>>
       ELSE Frozen
    /\ ev' = Event("submit", requests[i].late, FALSE, FALSE, run.id, <<>>)
    /\ UNCHANGED <<mounted, failedPost>>
    /\ WithinBounds

\* A variant of the catch handler of submitFunctionOutputs that posts again.
SubmitFailureRetrying(i) ==
    /\ requests[i].kind = "postOutputs"
    /\ requests' = Append(Remove(requests, i), requests[i])
    /\ failedPost' = <<[runId |-> requests[i].runId, outputs |-> requests[i].outputs]>>
    /\ ev' = Event("submitFailed", FALSE, FALSE, FALSE, "", <<>>)
    /\ Frozen
    /\ UNCHANGED mounted

\* submitFunctionOutputs: the catch handler.
SubmitFailure(i) ==
    /\ requests[i].kind = "postOutputs"
    /\ requests' = Remove(requests, i)
    /\ failedPost' = <<[runId |-> requests[i].runId, outputs |-> requests[i].outputs]>>
    /\ ev' = Event("submitFailed", FALSE, FALSE, FALSE, "", <<>>)
    /\ Frozen
    /\ UNCHANGED mounted

\* The component is unmounted.  No effect registered a cleanup.
Unmount ==
    /\ mounted
    /\ mounted' = FALSE
    /\ timers' = Outdated(timers)
    /\ ev' = Event("unmount", FALSE, FALSE, FALSE, "", <<>>)
    /\ UNCHANGED <<loading, mapCenter, pointsOfInterest, mapZoomLevel, userPrompt,
                   currentRun, messages, assistantWriting, requests, stopped, failedPost>>

\* The backend answers a request in flight, or the request fails.
MessagesArrive ==
    \E i \in 1..Len(requests), data \in MessagesData : FetchMessagesResponse(i, data)
MessagesFail == \E i \in 1..Len(requests) : FetchMessagesFailure(i)
OpenRunArrives ==
    \E i \in 1..Len(requests), run \in OpenRuns : FetchOpenRunResponse(i, run)
OpenRunFails == \E i \in 1..Len(requests) : FetchOpenRunFailure(i)
RunStatusArrives ==
    \E i \in 1..Len(requests) :
        \E run \in PolledRuns(requests[i].runId) : PollResponse(i, run)
RunStatusFails == \E i \in 1..Len(requests) : PollFailure(i)
PromptAccepted ==
    \E i \in 1..Len(requests), run \in CreatedRuns : PromptResponse(i, M3, run)
PromptFails == \E i \in 1..Len(requests) : PromptFailure(i)
OutputsAccepted ==
    \E i \in 1..Len(requests) :
        \E run \in SubmittedRuns(requests[i].runId) : SubmitResponse(i, run)
OutputsFail == \E i \in 1..Len(requests) : SubmitFailure(i)
UserTypes == \E text \in Prompts : Typing(text)

Next ==
    \/ MessagesArrive
    \/ MessagesFail
    \/ OpenRunArrives
    \/ OpenRunFails
    \/ RunStatusArrives
    \/ RunStatusFails
    \/ PromptAccepted
    \/ PromptFails
    \/ OutputsAccepted
    \/ OutputsFail
    \/ TimerFires
    \/ UserTypes
    \/ handlePromptSubmission
    \/ Unmount

Spec == Init /\ [][Next]_vars

----------------------------------------------------------------------------
(* executeAssistantActions on bounded inputs: the component waiting for the        *)
(* response to a run request, and a backend that may ask for any list of at most *)
(* MaxCalls tool calls.                                                           *)

RECURSIVE CallLists(_)
CallLists(n) ==
    IF n = 0 THEN {<<>>}
    ELSE CallLists(n - 1)
         \cup {Append(l, c) : l \in {x \in CallLists(n - 1) : Len(x) = n - 1}, c \in ToolCalls}

ExecRuns ==
    {ActionRun("r1", calls) : calls \in CallLists(MaxCalls)}
    \cup {[id |-> "r1", status |-> "requires_action", required_action |-> NoAction]}

Mark == generateAnnotation("Annotated Map", "mark")

\* Hydration waiting for GET /runs after GET /messages gave messages, or a poll of
\* run r1 in flight, before any tool call (held = <<>>) or after addLocationsToMap
\* with ArgsA (held = <<Mark>>).
InitExec ==
    /\ mounted = TRUE
    /\ userPrompt = ""
    /\ assistantWriting = FALSE
    /\ timers = <<>>
    /\ stopped = FALSE
    /\ failedPost = <<>>
    /\ ev = Event("mount", FALSE, FALSE, FALSE, "", <<>>)
    /\ \/ /\ loading = TRUE
          /\ currentRun = NoRun
          /\ messages \in {<<>>, <<M1>>}
          /\ requests = <<GetRuns>>
          /\ mapCenter = InitialCenter
          /\ mapZoomLevel = InitialZoom
          /\ pointsOfInterest = <<>>
       \/ /\ loading = FALSE
          /\ currentRun = Run("r1", "in_progress")
          /\ messages = <<>>
          /\ requests = <<GetRun("r1", <<>>, {})>>
          /\ mapCenter = InitialCenter
          /\ mapZoomLevel = InitialZoom
          /\ pointsOfInterest = <<>>
       \/ /\ loading = FALSE
          /\ currentRun = Run("r1", "in_progress")
          /\ messages = <<Mark>>
          /\ requests = <<GetRun("r1", <<Mark>>, {})>>
          /\ mapCenter = [lat |-> ArgsA.centerLatitude, lng |-> ArgsA.centerLongitude]
          /\ mapZoomLevel = ArgsA.zoomLevel
          /\ pointsOfInterest = ArgsA.markers

OpenRunAsksForActions ==
    \E i \in 1..Len(requests), run \in ExecRuns : FetchOpenRunResponse(i, run)
RunStatusAsksForActions ==
    \E i \in 1..Len(requests), run \in ExecRuns : PollResponse(i, run)

NextExec ==
    \/ OpenRunAsksForActions
    \/ RunStatusAsksForActions

SpecExec == InitExec /\ [][NextExec]_vars

----------------------------------------------------------------------------
(* Properties *)

ToolCallsOf(run) == run.required_action.tool_calls

Recognised(call) == call.type = "function" /\ call.name \in FunctionNames

PollsOutstanding ==
    Len(timers) + Cardinality({i \in 1..Len(requests) : requests[i].kind = "getRun"})

\* C1: once a response has set currentRun to a run that is not active, no run-status
\* GET is issued (no timer fires into pollCurrentRunStatus) until a prompt-submission
\* response sets an active run.
C1_NoPollAfterRunEnds == ev.kind = "timer" => ~stopped

\* C2: at most one poll is outstanding, pending timers and run-status GETs in
\* flight counted together.
C2_AtMostOnePollOutstanding == PollsOutstanding <= 1

\* C3: a timer set for one value of currentRun never fires after currentRun has
\* been replaced or the component has unmounted.
C3_OutdatedTimerNeverFires == ev.kind = "timer" => ~ev.flag

\* C4: whenever a run in requires_action is handled, the tool outputs posted hold
\* an output for the id of every tool call of the run, whatever its type or
\* function name.
C4_EveryToolCallReported ==
    (mounted /\ ev.acts /\ ev.posted) =>
           \A k \in 1..Len(ToolCallsOf(currentRun)) :
              \E o \in 1..Len(requests[Len(requests)].outputs) :
                  requests[Len(requests)].outputs[o].tool_call_id
                      = ToolCallsOf(currentRun)[k].id

\* The map state, and the effect of one tool call on it as C5 words it.
MapState == [center |-> mapCenter, zoom |-> mapZoomLevel, markers |-> pointsOfInterest]

ApplyCall(m, call) ==
    IF call.type # "function" THEN m
    ELSE IF call.name = "changeMapZoomLevel"
         THEN [m EXCEPT !.zoom = call.arguments.zoomLevel]
    ELSE IF call.name = "changeMapCenter"
         THEN [m EXCEPT !.zoom = call.arguments.zoomLevel,
                        !.center = [lat |-> call.arguments.latitude,
                                    lng |-> call.arguments.longitude]]
    ELSE IF call.name = "addLocationsToMap"
         THEN [center |-> [lat |-> call.arguments.centerLatitude,
                           lng |-> call.arguments.centerLongitude],
               zoom |-> call.arguments.zoomLevel,
               markers |-> call.arguments.markers]
    ELSE m

RECURSIVE FoldCalls(_, _)
FoldCalls(m, calls) ==
    IF calls = <<>> THEN m ELSE FoldCalls(ApplyCall(m, Head(calls)), Tail(calls))

\* The calls the loop gets through: those before the first function call whose
\* arguments are not JSON.
RECURSIVE Handled(_)
Handled(calls) ==
    IF calls = <<>> THEN <<>>
    ELSE IF Head(calls).type = "function" /\ ~Head(calls).arguments.ok THEN <<>>
    ELSE <<Head(calls)>> \o Handled(Tail(calls))

FailureKinds ==
    {"fetchMessagesFailed", "fetchOpenRunFailed", "pollFailed", "promptFailed",
     "submitFailed"}

FailedRequestKind(kind) ==
    CASE kind = "fetchMessagesFailed" -> "getMessages"
      [] kind = "fetchOpenRunFailed" -> "getRuns"
      [] kind = "pollFailed" -> "getRun"
      [] kind = "promptFailed" -> "postMessage"
      [] kind = "submitFailed" -> "postOutputs"

C7_OvertakenResponseReplacesRun ==
    [][(mounted /\ ev'.kind \in {"poll", "prompt", "submit"} /\ ev'.flag) =>
          currentRun'.id = ev'.runId]_vars

\* The poll of run r1 was issued before a request whose response has since set
\* currentRun; a prompt response has set the new run r2; the poll's response is
\* applied and currentRun holds r1 again.
C7_Witness ==
    /\ mounted
    /\ ev.kind = "poll" /\ ev.flag
    /\ assistantWriting
    /\ currentRun.id = "r1"
    /\ \E k \in 1..Len(timers) : timers[k].runId = "r2"

\* C8: when the response of a prompt submission is applied, messages is the list
\* held at that moment with the returned message appended, currentRun is the
\* returned run and assistantWriting is true.
C8_PromptResponseAppends ==
    [][(mounted /\ ev'.kind = "prompt") =>
          /\ Len(messages') = Len(messages) + 1
          /\ SubSeq(messages', 1, Len(messages)) = messages
          /\ currentRun'.id = ev'.runId
          /\ assistantWriting']_vars

NumRecognised(calls) == Cardinality({k \in 1..Len(calls) : Recognised(calls[k])})

IsAnnotation(m) == m.role \in {"zoom", "center", "mark"}

\* C9: after executeAssistantActions has handled a run with n recognised function
\* calls, messages is the list held just before with n annotations appended.
C9_OneAnnotationPerCall ==
    [][(mounted /\ ev'.acts /\ ev'.posted) =>
          /\ Len(messages') = Len(messages) + NumRecognised(ToolCallsOf(currentRun'))
          /\ SubSeq(messages', 1, Len(messages)) = messages
          /\ \A k \in (Len(messages) + 1)..Len(messages') : IsAnnotation(messages'[k])]_vars

\* C10: when the response of fetchMessages carries newMessages, messages becomes
\* every message held before together with the returned messages whose id was not
\* held, in ascending order of created_at.
C10_FetchMessagesMerges ==
    [][(mounted /\ ev'.kind = "fetchMessages" /\ ev'.flag) =>
          messages' = SortByCreatedAt(messages \o MissingMessages(messages, ev'.list))]_vars

\* C11: each tool call of a run is executed and submitted at most once: while no
\* tool-output POST has failed, the handler of a poll response does not execute
\* and post a tool call id that a tool-output POST for the same run, issued before
\* the poll was scheduled, has carried already.
C11_ToolCallSubmittedOnce ==
    (mounted /\ failedPost = <<>> /\ ev.kind = "poll" /\ ev.posted) =>
        Ids(requests[Len(requests)].outputs) \cap ev.reported = {}

\* C12: the input is re-enabled in the end: once the response of a prompt
\* submission has set assistantWriting, a timer or a request is pending that leads
\* to the fetchMessages response which resets it; assistantWriting is never left
\* true with no pending timer and no request in flight.
C12_WritingHasPendingWork ==
    (mounted /\ ev.kind = "prompt" /\ assistantWriting) =>
        (timers # <<>> \/ requests # <<>>)

Hydrating(reqs) == \E i \in 1..Len(reqs) : reqs[i].hydrate

NumRunsGets(reqs) ==
    Cardinality({i \in 1..Len(reqs) : reqs[i].kind = "getRuns"})

\* C13: on mount the runs GET is issued only in the step in which the messages GET
\* of hydration settles; loading becomes false only when the runs GET settles, with
\* no request of hydration left in flight; it becomes false whether the runs GET
\* succeeds or fails, and whether or not the messages GET failed before it; once
\* false it stays false.
C13_HydrationOrderAndCompletion ==
    [][/\ NumRunsGets(requests') > NumRunsGets(requests) =>
             /\ ev'.kind \in {"fetchMessages", "fetchMessagesFailed"}
             /\ \E i \in 1..Len(requests) :
                   requests[i].kind = "getMessages" /\ requests[i].hydrate
             /\ \A i \in 1..Len(requests') :
                   requests'[i].hydrate => requests'[i].kind = "getRuns"
             /\ loading'
       /\ ev'.kind \in {"fetchMessages", "fetchMessagesFailed"} =>
             (Hydrating(requests) => NumRunsGets(requests') = 1)
       /\ (loading /\ ~loading') =>
             /\ ev'.kind \in {"fetchOpenRun", "fetchOpenRunFailed"}
             /\ ~Hydrating(requests')
       /\ (mounted /\ ev'.kind \in {"fetchOpenRun", "fetchOpenRunFailed"}) => ~loading'
       /\ ~loading => ~loading']_vars

\* Hydration has ended with a failed runs GET and the input is in use.
C13_Witness ==
    /\ mounted /\ ~loading
    /\ ev.kind = "fetchOpenRunFailed"
    /\ requests = <<>>
    /\ currentRun = NoRun

IdsInOrder(s) == [k \in 1..Len(s) |-> s[k].id]

OutputIdsInOrder(outputs) == [k \in 1..Len(outputs) |-> outputs[k].tool_call_id]

RecognisedCalls(run) == SelectSeq(ToolCallsOf(run), Recognised)

AllParse(calls) ==
    \A k \in 1..Len(calls) : calls[k].type = "function" => calls[k].arguments.ok

====
